---- MODULE Spec2Model ----
(***************************************************************************)
(* Model of the Orbweaver engine (packages/orbweaver/src/index.ts): the    *)
(* frame loop (start / stop / setTargetFPS / loop callback), the behavior  *)
(* collection, the per-frame advance and the per-cell sampler.             *)
(*                                                                         *)
(* Numbers.  Time is in integer milliseconds (performance.now()).  The     *)
(* engine's dtSeconds is carried as dtMs = dtSeconds * 1000.  Normalized   *)
(* units, radians and amplitudes are fixed point with three decimals       *)
(* (1000 = 1.0).  A nullable field is a sequence of length at most one:    *)
(* <<>> is null and <<v>> holds v.                                         *)
(***************************************************************************)
EXTENDS Integers, Sequences, FiniteSets, TLC

VARIABLES
  now,                          \* performance.now(), ms
  rafQueue,                     \* pending requestAnimationFrame callbacks: set of [id, notBefore]
  timers,                       \* pending setTimeout callbacks: set of [id, due]
  canvas,                       \* per renderer: its current pixel and grid size
  canvasRenderer,               \* a CanvasAsciiRenderer and the window's 'resize' listeners
  resizeListeners,              \* per renderer: the subscribed resize callbacks (tokens)
  nextListener,                 \* next resize callback token
  renderer,                     \* Orbweaver.renderer
  animationHandle,              \* Orbweaver.animationHandle
  startTimeMs,                  \* Orbweaver.startTimeMs
  lastIntegratedDeltaTimeMs,    \* Orbweaver.lastIntegratedDeltaTimeMs
  lastFrameTimeMs,              \* Orbweaver.lastFrameTimeMs
  targetFPS,                    \* Orbweaver.targetFPS
  frameIntervalMs,              \* Orbweaver.frameIntervalMs
  unsubscribeResize,            \* Orbweaver.unsubscribeResize
  geometry,                     \* Orbweaver.centerX, centerY, unitScale, cols, rows
  behaviors,                    \* Orbweaver.behaviors: sequence of behavior instances
  behaviorState,                \* the fields of every behavior instance
  impulseOffsetUnits,           \* Orbweaver.impulseOffsetUnits
  impulseVelocityUnitsPerSecond,\* Orbweaver.impulseVelocityUnitsPerSecond
  crosshairRow,                 \* Orbweaver.crosshairRow
  crosshairCol,                 \* Orbweaver.crosshairCol
  frameState,                   \* Orbweaver.frameState
  debugCrosshair,               \* Orbweaver.debugCrosshair
  blob,                         \* Orbweaver.blob (BlobModel)
  lastCall,                     \* history: the call that has just run, its arguments and error
  lastFrame,                    \* history: what the loop callback that has just run did
  samples,                      \* history: values intensityAt returned since the last advance
  run                           \* history: the caller's view of the run (start/stop) and its frames

vars == <<now, rafQueue, timers, canvas, canvasRenderer, resizeListeners,
          nextListener, renderer, animationHandle, startTimeMs,
          lastIntegratedDeltaTimeMs, lastFrameTimeMs, targetFPS,
          frameIntervalMs, unsubscribeResize, geometry, behaviors,
          behaviorState, impulseOffsetUnits, impulseVelocityUnitsPerSecond,
          crosshairRow, crosshairCol, frameState, debugCrosshair, blob,
          lastCall, lastFrame, samples, run>>

browserVars == <<now, rafQueue, timers>>
rendererVars == <<canvas, canvasRenderer, resizeListeners, nextListener, renderer, unsubscribeResize, geometry>>
timelineVars == <<startTimeMs, lastIntegratedDeltaTimeMs, lastFrameTimeMs>>
fpsVars == <<targetFPS, frameIntervalMs>>
motionVars == <<behaviorState, impulseOffsetUnits, impulseVelocityUnitsPerSecond, frameState>>
cursorVars == <<crosshairRow, crosshairCol, debugCrosshair>>

-----------------------------------------------------------------------------
(* Nullable values *)

Null == <<>>
Some(v) == <<v>>
IsNull(n) == n = <<>>
Val(n) == n[1]

(* Bounds of the model *)

MaxTime == 3
MaxPending == 2
MaxListeners == 3
MaxImpulseSpeed == 1000000
MaxRunMs == 4000
MaxKickMs == 300
MaxSettleMs == 2900
MaxAdvanceMs == 350

-----------------------------------------------------------------------------
(* Fixed-point arithmetic *)

Abs(x) == IF x < 0 THEN -x ELSE x
Max(a, b) == IF a >= b THEN a ELSE b
Min(a, b) == IF a <= b THEN a ELSE b

\* JavaScript number division rounded to the nearest fixed-point step toward zero.
Quot(a, b) == IF (a >= 0) = (b > 0) THEN Abs(a) \div Abs(b) ELSE -(Abs(a) \div Abs(b))

\* The remainder-preserving quotient a / b in thousandths, saturated at +-2000.0
\* so that intermediate products stay inside the checker's integers.
DivMilli(a, b) ==
  LET q == Quot(a, b)
      rem == a - q * b
  IN  IF q > 2000 THEN 2000000
      ELSE IF q < -2000 THEN -2000000
      ELSE q * 1000 + Quot(rem * 1000, b)

RECURSIVE ISqrtFrom(_, _, _)
ISqrtFrom(n, lo, hi) ==
  IF lo >= hi THEN lo
  ELSE LET mid == (lo + hi + 1) \div 2
       IN  IF mid * mid <= n THEN ISqrtFrom(n, mid, hi) ELSE ISqrtFrom(n, lo, mid - 1)

\* Math.hypot on thousandths (arguments are clamped to +-30.0).
Hypot(x, y) ==
  LET cx == Min(30000, Abs(x))
      cy == Min(30000, Abs(y))
  IN  ISqrtFrom(cx * cx + cy * cy, 0, 46340)

PiMilli == 3142
TwoPiMilli == 6284
HalfPiMilli == 1571

\* Math.sin of an angle in milliradians, in thousandths (Bhaskara's rational form).
SinMilli(x) ==
  LET y == x % TwoPiMilli
      z == IF y <= PiMilli THEN y ELSE y - PiMilli
      p == (z * (PiMilli - z)) \div 100
      v == (16 * p * 1000) \div (5 * ((PiMilli * PiMilli) \div 100) - 4 * p)
  IN  IF y <= PiMilli THEN v ELSE -v

CosMilli(x) == SinMilli(x + HalfPiMilli)

\* atan of a ratio z in [0, 1.0] given in thousandths, in milliradians.
AtanUnit(z) == (z * (785 + (273 * (1000 - z)) \div 1000)) \div 1000

\* Math.atan2(y, x) in milliradians, in (-pi, pi]; atan2(0, 0) = 0.
Atan2Milli(y, x) ==
  LET ax == Abs(x)
      ay == Abs(y)
      a == IF ax = 0 /\ ay = 0 THEN 0
           ELSE IF ay <= ax THEN AtanUnit((Min(ay, 2000000) * 1000) \div Max(1, Min(ax, 2000000)))
           ELSE HalfPiMilli - AtanUnit((Min(ax, 2000000) * 1000) \div Max(1, Min(ay, 2000000)))
      b == IF x >= 0 THEN a ELSE PiMilli - a
  IN  IF y >= 0 THEN b ELSE -b

\* Math.exp(-u) for u >= 0 in thousandths, in thousandths.
RECURSIVE ExpNegMilli(_)
ExpNegMilli(u) ==
  IF u <= 0 THEN 1000
  ELSE IF u > 16000 THEN 0
  ELSE IF u > 500 THEN LET h == ExpNegMilli(u \div 2) IN (h * h) \div 1000
  ELSE ((2000 - u) * 1000) \div (2000 + u)

-----------------------------------------------------------------------------
(* Behaviors (RotateBehavior, BobBehavior, OrbitBehavior, CrosshairBehavior) *)

Channels == [rotationPhase |-> "orbweaver.rotationPhase",
             xOffsetUnits |-> "orbweaver.xOffsetUnits",
             yOffsetUnits |-> "orbweaver.yOffsetUnits",
             cursorInfluence |-> "orbweaver.cursorInfluence"]

\* The behavior instances a caller has created, and the state their constructors leave.
BehaviorIds == {"rotA", "rotB", "bob", "orbit", "cross"}

NewBehavior(id) ==
  CASE id = "rotA" -> [type |-> "rotate", speed |-> 1, direction |-> 1, phase |-> 0]
    [] id = "rotB" -> [type |-> "rotate", speed |-> 2, direction |-> -1, phase |-> 0]
    [] id = "bob" -> [type |-> "bob", amplitude |-> 50, rate |-> 2, phase |-> 0,
                      currentAmplitude |-> 50]
    [] id = "orbit" -> [type |-> "orbit", radiusUnits |-> 150, angularSpeed |-> 1,
                        phase |-> 0, axis |-> "both"]
    [] id = "cross" -> [type |-> "crosshair", strength |-> 500]

AccGetAbsent(acc, ch) == 0

\* acc[channel] ?? 0 and acc[channel] = v on the open accumulator.
AccGet(acc, ch) == IF ch \in DOMAIN acc THEN acc[ch] ELSE 0
AccPut(acc, ch, v) == [c \in (DOMAIN acc) \cup {ch} |-> IF c = ch THEN v ELSE acc[c]]
EmptyAcc == [c \in {} |-> 0]

\* BobBehavior.update: const smoothing = 1 - Math.exp(-dt * 12)
Smoothing(dt) == 1000 - ExpNegMilli(dt * 12)

RotatedPhaseRestarted(b, dt) == (b.speed * b.direction) * dt

\* RotateBehavior.update: this.phase += this.speed * this.direction * dt
RotatedPhase(b, dt) == b.phase + (b.speed * b.direction) * dt

\* behavior.update(deltaTimeSeconds), with dtMs = deltaTimeSeconds * 1000.
Update(b, dtMs) ==
  LET dt == Max(0, dtMs)
  IN  CASE b.type = "rotate" -> [b EXCEPT !.phase = RotatedPhase(b, dt)]
        [] b.type = "bob" ->
             [b EXCEPT !.phase = @ + b.rate * dt,
                       !.currentAmplitude =
                          @ + Quot((b.amplitude - @) * Max(0, Min(1000, Smoothing(dt))), 1000)]
        [] b.type = "orbit" -> [b EXCEPT !.phase = @ + b.angularSpeed * dt]
        [] b.type = "crosshair" -> b

\* behavior.contribute(acc): the accumulator after the call.
Contribute(b, acc) ==
  CASE b.type = "rotate" ->
         AccPut(acc, Channels.rotationPhase, AccGet(acc, Channels.rotationPhase) + b.phase)
    [] b.type = "bob" ->
         LET bobOffsetUnits == IF b.currentAmplitude > 0
                               THEN Quot(SinMilli(b.phase) * b.currentAmplitude, 1000)
                               ELSE 0
         IN  AccPut(acc, Channels.yOffsetUnits, AccGet(acc, Channels.yOffsetUnits) + bobOffsetUnits)
    [] b.type = "orbit" ->
         LET x == Quot(CosMilli(b.phase) * b.radiusUnits, 1000)
             y == Quot(SinMilli(b.phase) * b.radiusUnits, 1000)
             accX == IF b.axis \in {"x", "both"}
                     THEN AccPut(acc, Channels.xOffsetUnits, AccGet(acc, Channels.xOffsetUnits) + x)
                     ELSE acc
         IN  IF b.axis \in {"y", "both"}
             THEN AccPut(accX, Channels.yOffsetUnits, AccGet(accX, Channels.yOffsetUnits) + y)
             ELSE accX
    [] b.type = "crosshair" ->
         AccPut(acc, Channels.cursorInfluence, AccGet(acc, Channels.cursorInfluence) + b.strength)

TypeOf(id) == NewBehavior(id).type

-----------------------------------------------------------------------------
(* Renderers (the Renderer capability) and the blob *)

RendererIds == {"r1", "r2"}

\* renderer.getPixelSize() and renderer.getGridSize() of the renderers a caller built.
\* The sizes a renderer's canvas takes: the first is the size it is built with.
CanvasSizes(r) ==
  IF r = "r1"
  THEN << [width |-> 40, height |-> 20, cols |-> 4, rows |-> 2],
          [width |-> 20, height |-> 20, cols |-> 2, rows |-> 2] >>
  ELSE << [width |-> 30, height |-> 30, cols |-> 3, rows |-> 3],
          [width |-> 30, height |-> 60, cols |-> 3, rows |-> 6] >>

\* new CanvasAsciiRenderer(canvas, options): no resize callbacks; the window has
\* no 'resize' listener; configureCanvas has sized the backing store to the
\* canvas's bounding rectangle (one of two sizes the window gives it).
NewCanvasRenderer ==
  [resizeListeners |-> <<>>, windowListeners |-> {}, nextArrow |-> 1,
   unsubscribers |-> {}, rect |-> 1, configured |-> 1, destroyed |-> FALSE]

GetPixelSize(r) == [width |-> canvas[r].width, height |-> canvas[r].height]
GetGridSize(r) == [cols |-> canvas[r].cols, rows |-> canvas[r].rows]

\* HARMONIC_PRESETS.rippled, amplitudes and frequencies in thousandths, phases
\* in milliradians.
RippledPreset == << [amplitude |-> 1000, frequency |-> 2000, phase |-> 0],
                    [amplitude |-> 350, frequency |-> 6000, phase |-> 524],
                    [amplitude |-> 250, frequency |-> 9000, phase |-> 1571],
                    [amplitude |-> 150, frequency |-> 12000, phase |-> 1047] >>

\* new BlobModel(0.55)
NewBlob == [baseRadius |-> 550, amplitude |-> 120, harmonics |-> RippledPreset]

RECURSIVE Pow(_, _)
Pow(base, i) == IF i <= 0 THEN 1 ELSE base * Pow(base, i - 1)

FrequencyDefaultBase(frequencySpacing, baseFrequency, i) ==
  CASE frequencySpacing = "harmonic" -> baseFrequency * (i + 1)
    [] frequencySpacing = "geometric" -> Quot(baseFrequency * Pow(17, i), Pow(10, i))
    [] frequencySpacing = "additive" -> baseFrequency + 1000 * i
    [] OTHER -> baseFrequency

\* The switch on frequencySpacing; geometricRatio = 1.7, additiveStep = 1.
Frequency(frequencySpacing, baseFrequency, i) ==
  CASE frequencySpacing = "harmonic" -> baseFrequency * (i + 1)
    [] frequencySpacing = "geometric" -> Quot(baseFrequency * Pow(17, i), Pow(10, i))
    [] frequencySpacing = "additive" -> baseFrequency + 1000 * i
    [] OTHER -> baseFrequency * (i + 1)

\* generateHarmonics(params): one entry per i with 0 <= i < numHarmonics.
GenerateHarmonics(params) ==
  [k \in 1..params.numHarmonics |->
     [amplitude |-> Quot(1000, k),
      frequency |-> Frequency(params.frequencySpacing, params.baseFrequency, k - 1),
      phase |-> (k - 1) * params.phaseSpread]]

SetHarmonicsAppending(bl, input, isArray) ==
  [bl EXCEPT !.harmonics = @ \o (IF isArray THEN input ELSE GenerateHarmonics(input))]

\* BlobModel.setHarmonics(input); isArray is Array.isArray(input)
SetHarmonics(bl, input, isArray) ==
  [bl EXCEPT !.harmonics = IF isArray THEN input ELSE GenerateHarmonics(input)]

\* BlobModel.radiusAt(angle, timeSeconds)
RECURSIVE RadiusSum(_, _, _, _)
RadiusSum(bl, hs, angle, timeSeconds) ==
  IF hs = <<>> THEN bl.baseRadius
  ELSE LET h == hs[Len(hs)]
       IN  RadiusSum(bl, SubSeq(hs, 1, Len(hs) - 1), angle, timeSeconds)
           + Quot(Quot(bl.amplitude * h.amplitude, 1000)
                  * SinMilli(Quot(h.frequency * angle, 1000) + h.phase
                             + Quot(timeSeconds * 9, 10)), 1000)

RadiusAt(angle, timeSeconds) == RadiusSum(blob, blob.harmonics, angle, timeSeconds)

\* The cached geometry setupRenderer and the resize callback compute; pixels in thousandths.
GeometryOf(r) ==
  LET size == GetPixelSize(r)
      grid == GetGridSize(r)
  IN  [centerX |-> size.width * 500, centerY |-> size.height * 500,
       unitScale |-> Min(size.width, size.height) * 500,
       cols |-> grid.cols, rows |-> grid.rows]

NoGeometry == [centerX |-> 0, centerY |-> 0, unitScale |-> 1000, cols |-> 0, rows |-> 0]

-----------------------------------------------------------------------------
(* Orbweaver: per-frame advance and per-cell sampling *)

NoRenderer == "none"

\* Impulse offset and velocity carry six decimals (1000000 = 1.0) so that the
\* snap threshold eps = 1e-4 is ImpulseEps steps.
ImpulseUnit == 1000000
ImpulseEps == 100
ImpulseStiffness == 20
ImpulseDamping == 9

ImpulseAxisUnsnapped(offset, velocity, dtMs) ==
  LET a == -ImpulseStiffness * offset - ImpulseDamping * velocity
      v1 == velocity + Quot(a * dtMs, 1000)
      o1 == offset + Quot(v1 * dtMs, 1000)
  IN  [offset |-> o1, velocity |-> v1]

\* One axis of the spring-damper step of advanceBehaviors, then the snap to zero.
ImpulseAxis(offset, velocity, dtMs) ==
  LET a == -ImpulseStiffness * offset - ImpulseDamping * velocity
      v1 == velocity + Quot(a * dtMs, 1000)
      o1 == offset + Quot(v1 * dtMs, 1000)
  IN  IF Abs(o1) < ImpulseEps /\ Abs(v1) < ImpulseEps
      THEN [offset |-> 0, velocity |-> 0]
      ELSE [offset |-> o1, velocity |-> v1]

\* The impulse state after advanceBehaviors(dtSeconds): integrated only when dtSeconds > 0.
ImpulseStep(offset, velocity, dtMs) ==
  IF dtMs > 0
  THEN LET ax == ImpulseAxis(offset.x, velocity.x, dtMs)
           ay == ImpulseAxis(offset.y, velocity.y, dtMs)
       IN  [offset |-> [x |-> ax.offset, y |-> ay.offset],
            velocity |-> [x |-> ax.velocity, y |-> ay.velocity], steps |-> 1]
  ELSE [offset |-> offset, velocity |-> velocity, steps |-> 0]

\* How many update() calls each instance receives from one pass of that loop.
RECURSIVE UpdateCounts(_)
UpdateCounts(list) ==
  IF list = <<>> THEN [b \in BehaviorIds |-> 0]
  ELSE [UpdateCounts(Tail(list)) EXCEPT ![Head(list)] = @ + 1]

\* for (const behavior of this.behaviors) behavior.update(Math.max(0, dtSeconds))
RECURSIVE UpdateAll(_, _, _)
UpdateAll(list, st, dtMs) ==
  IF list = <<>> THEN st
  ELSE UpdateAll(Tail(list), [st EXCEPT ![Head(list)] = Update(@, Max(0, dtMs))], dtMs)

\* The accumulation loop of advanceBehaviors: a fresh accumulator per behavior,
\* of which only the three summed channels are read.
RECURSIVE ContributeAll(_, _)
ContributeAll(list, st) ==
  IF list = <<>> THEN [rotationPhase |-> 0, xOffsetUnits |-> 0, yOffsetUnits |-> 0]
  ELSE LET rest == ContributeAll(SubSeq(list, 1, Len(list) - 1), st)
           acc == Contribute(st[list[Len(list)]], EmptyAcc)
       IN  [rotationPhase |-> rest.rotationPhase + AccGet(acc, Channels.rotationPhase),
            xOffsetUnits |-> rest.xOffsetUnits + AccGet(acc, Channels.xOffsetUnits),
            yOffsetUnits |-> rest.yOffsetUnits + AccGet(acc, Channels.yOffsetUnits)]

\* Pixel position (in thousandths) of the center of a cell along one axis.
CellCenter(index, pixels, cells) == Quot((2 * index + 1) * pixels * 1000, 2 * cells)

NoCursorStale == <<frameState.cursorTheta, frameState.cursorDistanceUnits>>

\* let cursorTheta = null; let cursorDistanceUnits = null
NoCursor == <<Null, Null>>

\* The cursor part of advanceBehaviors: <<cursorTheta, cursorDistanceUnits>>.
CursorOf(xOffsetUnits, yOffsetUnits) ==
  IF renderer # NoRenderer /\ ~IsNull(crosshairRow) /\ ~IsNull(crosshairCol)
     /\ geometry.cols > 0 /\ geometry.rows > 0
  THEN LET size == GetPixelSize(renderer)
           cursorPxX == CellCenter(Val(crosshairRow), size.width, geometry.cols)
           cursorPxY == CellCenter(Val(crosshairCol), size.height, geometry.rows)
           nx == Quot((cursorPxX - geometry.centerX) * 1000, geometry.unitScale)
           ny == Quot((cursorPxY - (geometry.centerY
                                     + Quot(yOffsetUnits * geometry.unitScale, 1000))) * 1000,
                      geometry.unitScale)
           nxShifted == nx - xOffsetUnits
       IN  <<Some(Atan2Milli(ny, nxShifted)), Some(Hypot(nxShifted, ny))>>
  ELSE NoCursor

WithImpulseIgnored(sum, offset) == sum

\* xOffsetUnits += this.impulseOffsetUnits.x (and y): the impulse offset, kept in
\* millionths, added to a sum in thousandths.
WithImpulse(sum, offset) == sum + Quot(offset * 1000, ImpulseUnit)

\* Orbweaver.advanceBehaviors(dtSeconds): the behavior states, the impulse state
\* and the frameState it leaves.
AdvanceBehaviors(dtMs) ==
  LET st == UpdateAll(behaviors, behaviorState, dtMs)
      imp == ImpulseStep(impulseOffsetUnits, impulseVelocityUnitsPerSecond, dtMs)
      sums == ContributeAll(behaviors, st)
      xOffsetUnits == WithImpulse(sums.xOffsetUnits, imp.offset.x)
      yOffsetUnits == WithImpulse(sums.yOffsetUnits, imp.offset.y)
      cursor == CursorOf(xOffsetUnits, yOffsetUnits)
  IN  [behaviorState |-> st,
       updates |-> UpdateCounts(behaviors),
       impulseOffsetUnits |-> imp.offset,
       impulseVelocityUnitsPerSecond |-> imp.velocity,
       impulseSteps |-> imp.steps,
       frameState |-> [rotationPhase |-> sums.rotationPhase,
                       xOffsetUnits |-> xOffsetUnits,
                       yOffsetUnits |-> yOffsetUnits,
                       cursorTheta |-> cursor[1],
                       cursorDistanceUnits |-> cursor[2]]]

InitialFrameState == [rotationPhase |-> 0, xOffsetUnits |-> 0, yOffsetUnits |-> 0,
                      cursorTheta |-> Null, cursorDistanceUnits |-> Null]

IntensityUnclamped(interior, rim) == Quot(interior * 850 + rim * 350, 1000)

\* const intensity = Math.min(1, interior * 0.85 + rim * 0.35)
Intensity(interior, rim) == Min(1000, Quot(interior * 850 + rim * 350, 1000))

\* The compression strength of the cursor deformation: const strength = 0.9
CursorStrength == 900

\* The sample's distance r from the shifted center and the boundary radius
\* intensityAt evaluates at its angle, reading the per-frame state fs and
\* compressing by strength; in thousandths.
CellPolar(col, row, fs, strength) ==
  LET size == GetPixelSize(renderer)
      x == CellCenter(col, size.width, geometry.cols)
      y == CellCenter(row, size.height, geometry.rows)
      nx == Quot((x - geometry.centerX) * 1000, geometry.unitScale)
      ny == Quot((y - (geometry.centerY
                       + Quot(fs.yOffsetUnits * geometry.unitScale, 1000))) * 1000,
                 geometry.unitScale)
      nxShifted == nx - fs.xOffsetUnits
      r == Hypot(nxShifted, ny)
      theta == Atan2Milli(ny, nxShifted)
      baseRadius == RadiusAt(theta, fs.rotationPhase)
      radius ==
        IF ~IsNull(fs.cursorTheta)
        THEN LET angleDiff == theta - Val(fs.cursorTheta)
                 angularFalloff == Max(0, CosMilli(angleDiff))
                 d == Min(1000, Max(0, IF IsNull(fs.cursorDistanceUnits)
                                       THEN 1000
                                       ELSE Val(fs.cursorDistanceUnits)))
                 distanceInfluence == 1000 - d
                 combined == Quot(angularFalloff * distanceInfluence, 1000)
             IN  Quot(baseRadius * (1000 - Quot(strength * combined, 1000)), 1000)
        ELSE baseRadius
  IN  [r |-> r, radius |-> radius]

\* const interior = Math.max(0, 1 - r / (radius + 1e-6)), where r already holds
\* Math.hypot(...) + 1e-6: both operands of the division are taken in millionths.
Interior(r, radius) == Max(0, 1000 - DivMilli(r * 1000 + 1, radius * 1000 + 1))

\* The body of Orbweaver.intensityAt(col, row) with a renderer attached, reading the
\* per-frame state fs and compressing by strength; in thousandths.
IntensityFor(col, row, fs, strength) ==
  IF debugCrosshair /\ ~IsNull(crosshairRow) /\ ~IsNull(crosshairCol)
     /\ col = Val(crosshairRow) /\ row = Val(crosshairCol)
  THEN 1000
  ELSE
    LET p == CellPolar(col, row, fs, strength)
        interior == Interior(p.r, p.radius)
        signedDistance == p.r - p.radius
        rim == ExpNegMilli(Quot(Min(signedDistance * signedDistance, 100000000) * 10, 32))
    IN  Intensity(interior, rim)

\* Orbweaver.intensityAt(col, row)
IntensityAt(col, row) == IntensityFor(col, row, frameState, CursorStrength)

-----------------------------------------------------------------------------
(* Orbweaver: construction, frame loop and its controls *)

engineIdle == <<canvas, canvasRenderer, resizeListeners, nextListener, renderer, unsubscribeResize, geometry,
                behaviors, crosshairRow, crosshairCol, debugCrosshair, blob, samples>>

NoError == ""
RendererNotSet == "Renderer not set"

Call(op, arg, err) == [op |-> op, arg |-> arg, err |-> err]

NoFrame == [kind |-> "none", dtMs |-> 0, updates |-> [b \in BehaviorIds |-> 0],
            impulseSteps |-> 0, rendered |-> InitialFrameState, delay |-> 0,
            firstOfRun |-> FALSE, sinceRender |-> Null]

\* History left by a call that is not a loop callback and raises nothing.
Returned(op) == lastCall' = Call(op, <<>>, NoError) /\ lastFrame' = NoFrame

NewRun == [state |-> "Stopped", advanced |-> FALSE, lastRenderMs |-> Null]

\* frameIntervalMs as setTargetFPS computes it.
IntervalOf(fps) == IF ~IsNull(fps) /\ Val(fps) > 0 THEN Some(Quot(1000, Val(fps))) ELSE Null

\* The id a scheduling call returns: a positive integer that identifies no pending
\* callback of the same kind.
FreshId(queue) == CHOOSE n \in 1..(Cardinality(queue) + 1) :
                    /\ \A e \in queue : e.id # n
                    /\ \A m \in 1..(n - 1) : \E e \in queue : e.id = m

\* requestAnimationFrame(loop) / setTimeout(loop, delay): the queues and the id returned.
\* A frame requested from inside an animation frame runs in a later frame.
Schedule(rq, tq, interval, delay, inRaf) ==
  IF IsNull(interval)
  THEN [raf |-> rq \cup {[id |-> FreshId(rq), notBefore |-> IF inRaf THEN now + 1 ELSE now]},
        timers |-> tq, handle |-> Some(FreshId(rq))]
  ELSE [raf |-> rq,
        timers |-> tq \cup {[id |-> FreshId(tq), due |-> now + delay]},
        handle |-> Some(FreshId(tq))]

\* The fields start() assigns before it schedules the first callback.
StartTimeline ==
  /\ startTimeMs' = now
  /\ lastFrameTimeMs' = now
  /\ UNCHANGED lastIntegratedDeltaTimeMs

StartThrowsNever == FALSE

\* The guard at the top of start(): throw new Error("Renderer not set").
StartThrows == renderer = NoRenderer

\* Orbweaver.start()
Start ==
  IF StartThrows
  THEN /\ lastCall' = Call("start", <<>>, RendererNotSet)
       /\ lastFrame' = NoFrame
       /\ UNCHANGED <<browserVars, animationHandle, timelineVars, fpsVars, motionVars,
                      engineIdle, run>>
  ELSE IF ~IsNull(animationHandle)
  THEN /\ Returned("start")
       /\ run' = [run EXCEPT !.state = "Running"]
       /\ UNCHANGED <<browserVars, animationHandle, timelineVars, fpsVars, motionVars,
                      engineIdle>>
  ELSE /\ Cardinality(rafQueue) + Cardinality(timers) < MaxPending
       /\ StartTimeline
       /\ LET s == Schedule(rafQueue, timers, frameIntervalMs,
                            IF IsNull(frameIntervalMs) THEN 0 ELSE Val(frameIntervalMs), FALSE)
          IN  /\ rafQueue' = s.raf
              /\ timers' = s.timers
              /\ animationHandle' = s.handle
       /\ Returned("start")
       /\ run' = [state |-> "Running", advanced |-> FALSE, lastRenderMs |-> Null]
       /\ UNCHANGED <<now, fpsVars, motionVars, engineIdle>>

\* cancelAnimationFrame(handle) / clearTimeout(handle)
CancelAnimationFrame(handle) == {e \in rafQueue : e.id # handle}
ClearTimeout(handle) == {e \in timers : e.id # handle}

\* The queues after the cancellation stop() performs for a non-null handle:
\* the mechanism is chosen by the current frameIntervalMs.
StopCancel(handle) ==
  IF IsNull(frameIntervalMs)
  THEN [raf |-> CancelAnimationFrame(handle), timers |-> timers]
  ELSE [raf |-> rafQueue, timers |-> ClearTimeout(handle)]

\* The listener sets after calling the unsubscribe function onResize returned.
Unsubscribe(sub) == [resizeListeners EXCEPT ![sub.renderer] = @ \ {sub.token}]

\* Orbweaver.stop()
Stop ==
  /\ IF ~IsNull(animationHandle)
     THEN LET c == StopCancel(Val(animationHandle))
          IN  /\ rafQueue' = c.raf
              /\ timers' = c.timers
              /\ animationHandle' = Null
     ELSE UNCHANGED <<rafQueue, timers, animationHandle>>
  /\ IF ~IsNull(unsubscribeResize)
     THEN /\ resizeListeners' = Unsubscribe(Val(unsubscribeResize))
          /\ unsubscribeResize' = Null
     ELSE UNCHANGED <<resizeListeners, unsubscribeResize>>
  /\ Returned("stop")
  /\ run' = [run EXCEPT !.state = "Stopped"]
  /\ UNCHANGED <<now, canvas, canvasRenderer, nextListener, renderer, geometry, timelineVars,
                 fpsVars, motionVars, behaviors, cursorVars, blob, samples>>

\* Orbweaver.setTargetFPS(fps)
SetTargetFPS(fps) ==
  /\ targetFPS' = fps
  /\ frameIntervalMs' = IntervalOf(fps)
  /\ Returned("setTargetFPS")
  /\ UNCHANGED <<browserVars, animationHandle, timelineVars, motionVars, engineIdle, run>>

RenderInputBefore(before, after) == before

\* The frameState the sampler reads during renderer.render: loop calls
\* advanceBehaviors first and render second.
RenderInput(before, after) == after

\* lastFrameTimeMs after a frame that is not throttled: assigned only under a frame interval.
FrameTimeAfterRender == IF ~IsNull(frameIntervalMs) THEN now ELSE lastFrameTimeMs

\* The body of the loop closure of start(), run for the queue entry e.
Loop(e, via) ==
  LET rq == IF via = "raf" THEN rafQueue \ {e} ELSE rafQueue
      tq == IF via = "timeout" THEN timers \ {e} ELSE timers
      deltaTimeMs == now - startTimeMs
      timeSinceLastFrame == now - lastFrameTimeMs
      limited == ~IsNull(frameIntervalMs)
      throttled == limited /\ timeSinceLastFrame < Val(frameIntervalMs)
      sinceRender == IF IsNull(run.lastRenderMs) THEN Null ELSE Some(now - Val(run.lastRenderMs))
  IN
  IF renderer = NoRenderer
  THEN /\ rafQueue' = rq
       /\ timers' = tq
       /\ lastCall' = Call("loop", <<>>, RendererNotSet)
       /\ lastFrame' = [NoFrame EXCEPT !.kind = "threw"]
       /\ UNCHANGED <<now, animationHandle, timelineVars, fpsVars,
                      motionVars, engineIdle, run>>
  ELSE IF throttled
  THEN /\ LET delay == Val(frameIntervalMs) - timeSinceLastFrame
              s == Schedule(rq, tq, frameIntervalMs, delay, via = "raf")
          IN  /\ rafQueue' = s.raf
              /\ timers' = s.timers
              /\ animationHandle' = s.handle
              /\ lastFrame' = [NoFrame EXCEPT !.kind = "throttled", !.delay = delay,
                                             !.sinceRender = sinceRender]
       /\ lastCall' = Call("loop", <<>>, NoError)
       /\ UNCHANGED <<now, timelineVars, fpsVars, motionVars, engineIdle, run>>
  ELSE /\ LET frameDeltaMs == deltaTimeMs - lastIntegratedDeltaTimeMs
              dtMs == Max(0, frameDeltaMs)
              adv == AdvanceBehaviors(dtMs)
              s == Schedule(rq, tq, frameIntervalMs,
                            IF limited THEN Val(frameIntervalMs) ELSE 0, via = "raf")
          IN  /\ lastFrameTimeMs' = FrameTimeAfterRender
              /\ lastIntegratedDeltaTimeMs' = deltaTimeMs
              /\ behaviorState' = adv.behaviorState
              /\ impulseOffsetUnits' = adv.impulseOffsetUnits
              /\ impulseVelocityUnitsPerSecond' = adv.impulseVelocityUnitsPerSecond
              /\ frameState' = adv.frameState
              /\ rafQueue' = s.raf
              /\ timers' = s.timers
              /\ animationHandle' = s.handle
              /\ lastFrame' = [kind |-> "rendered", dtMs |-> dtMs,
                               updates |-> adv.updates,
                               impulseSteps |-> adv.impulseSteps,
                               sinceRender |-> sinceRender,
                               rendered |-> RenderInput(frameState, adv.frameState),
                               delay |-> IF limited THEN Val(frameIntervalMs) ELSE 0,
                               firstOfRun |-> ~run.advanced]
       /\ samples' = EmptyAcc
       /\ lastCall' = Call("loop", <<>>, NoError)
       /\ run' = [run EXCEPT !.advanced = TRUE, !.lastRenderMs = Some(now)]
       /\ UNCHANGED <<now, startTimeMs, fpsVars, canvas, canvasRenderer, resizeListeners,
                      nextListener, renderer,
                      unsubscribeResize, geometry, behaviors, cursorVars, blob>>

\* The browser runs a requested animation frame callback.
AnimationFrame == \E e \in rafQueue : e.notBefore <= now /\ Loop(e, "raf")

\* The browser runs a timer callback that is due.
Timeout == \E e \in timers : e.due <= now /\ Loop(e, "timeout")

\* performance.now() moves on.
Tick ==
  /\ now < MaxTime
  /\ now' = now + 1
  /\ Returned("tick")
  /\ UNCHANGED <<rafQueue, timers, animationHandle, timelineVars,
                 fpsVars, motionVars, engineIdle, run>>

\* renderer.onResize(callback) of the canvas renderers: the listener sets afterwards.
OnResize(r, token) == [resizeListeners EXCEPT ![r] = @ \cup {token}]

\* Orbweaver.setRenderer(renderer), which runs setupRenderer()
SetRenderer(r) ==
  /\ nextListener <= MaxListeners
  /\ renderer' = r
  /\ geometry' = GeometryOf(r)
  /\ resizeListeners' = OnResize(r, nextListener)
  /\ unsubscribeResize' = Some([renderer |-> r, token |-> nextListener])
  /\ nextListener' = nextListener + 1
  /\ Returned("setRenderer")
  /\ UNCHANGED <<browserVars, canvas, canvasRenderer, animationHandle, timelineVars, fpsVars,
                 motionVars,
                 behaviors, cursorVars, blob, samples, run>>

KickedVelocityReset(velocity, force) == force

\* this.impulseVelocityUnitsPerSecond.x += force.x; ...y += force.y
KickedVelocity(velocity, force) == [x |-> velocity.x + force.x, y |-> velocity.y + force.y]

\* Orbweaver.impulse(force)
Impulse(force) ==
  /\ Abs(impulseVelocityUnitsPerSecond.x + force.x) <= MaxImpulseSpeed
  /\ Abs(impulseVelocityUnitsPerSecond.y + force.y) <= MaxImpulseSpeed
  /\ impulseVelocityUnitsPerSecond' = KickedVelocity(impulseVelocityUnitsPerSecond, force)
  /\ lastCall' = Call("impulse", <<force>>, NoError)
  /\ lastFrame' = NoFrame
  /\ UNCHANGED <<browserVars, animationHandle, timelineVars, fpsVars, behaviorState,
                 impulseOffsetUnits, frameState, engineIdle, run>>

-----------------------------------------------------------------------------
(* Specification of the frame loop *)

\* Arguments callers pass: setTargetFPS(null | 500), impulse({x: 1, y: 0}).
LoopFpsInputs == {Null, Some(500)}
ForceInputs == {[x |-> ImpulseUnit, y |-> 0]}
LoopBehaviorLists == {<<"rotA", "rotB", "rotB">>}

\* new Orbweaver({renderer, fps, behavior})
Constructed(r, fps, list) ==
  /\ now = 0
  /\ rafQueue = {}
  /\ timers = {}
  /\ renderer = r
  /\ canvas = [x \in RendererIds |-> CanvasSizes(x)[1]]
  /\ canvasRenderer = NewCanvasRenderer
  /\ resizeListeners = [x \in RendererIds |-> IF x = r THEN {1} ELSE {}]
  /\ nextListener = IF r = NoRenderer THEN 1 ELSE 2
  /\ unsubscribeResize = IF r = NoRenderer THEN Null ELSE Some([renderer |-> r, token |-> 1])
  /\ geometry = IF r = NoRenderer THEN NoGeometry ELSE GeometryOf(r)
  /\ animationHandle = Null
  /\ startTimeMs = 0
  /\ lastIntegratedDeltaTimeMs = 0
  /\ lastFrameTimeMs = 0
  /\ targetFPS = fps
  /\ frameIntervalMs = IntervalOf(fps)
  /\ behaviors = list
  /\ behaviorState = [b \in BehaviorIds |-> NewBehavior(b)]
  /\ impulseOffsetUnits = [x |-> 0, y |-> 0]
  /\ impulseVelocityUnitsPerSecond = [x |-> 0, y |-> 0]
  /\ crosshairRow = Null
  /\ crosshairCol = Null
  /\ frameState = InitialFrameState
  /\ debugCrosshair = FALSE
  /\ blob = NewBlob
  /\ lastCall = Call("new", <<>>, NoError)
  /\ lastFrame = NoFrame
  /\ samples = EmptyAcc
  /\ run = NewRun

Init == \E r \in {NoRenderer, "r1"}, list \in LoopBehaviorLists : Constructed(r, Null, list)

Next ==
  \/ Tick
  \/ Start
  \/ Stop
  \/ \E fps \in LoopFpsInputs : SetTargetFPS(fps)
  \/ AnimationFrame
  \/ Timeout

Spec == Init /\ [][Next]_vars

-----------------------------------------------------------------------------
(* Properties of the frame loop *)

Pending == Cardinality(rafQueue) + Cardinality(timers)

\* C1: after stop() returns, no frame callback advances behaviors or renders
\* until the next start(), whichever mechanism scheduled the pending callback.
C1_NoFrameAfterStop == lastFrame.kind = "rendered" => run.state = "Running"

\* C2: at most one frame-loop callback is pending for the engine in every
\* reachable state.
C2_AtMostOnePending == Pending <= 1

\* C3: start() without a renderer raises 'Renderer not set' and leaves the engine
\* Stopped: nothing is scheduled, animationHandle stays null and startTimeMs and
\* lastFrameTimeMs keep the values construction gave them.
C3_StartWithoutRenderer ==
  /\ (lastCall.op = "start" /\ renderer = NoRenderer) => lastCall.err = RendererNotSet
  /\ renderer = NoRenderer =>
       /\ IsNull(animationHandle)
       /\ Pending = 0
       /\ startTimeMs = 0
       /\ lastFrameTimeMs = 0
       /\ run.state = "Stopped"

C3_Witness ==
  renderer = NoRenderer /\ lastCall.op = "start" /\ lastCall.err = RendererNotSet /\ now > 0

\* Number of entries of the behavior list that are the instance b.
Occurrences(list, b) == Cardinality({i \in DOMAIN list : list[i] = b})

RECURSIVE UpdateTimes(_, _, _)
UpdateTimes(b, dtMs, n) == IF n = 0 THEN b ELSE UpdateTimes(Update(b, dtMs), dtMs, n - 1)

C9_ThrottleWithinInterval ==
  (/\ lastFrame.kind \in {"rendered", "throttled"}
   /\ ~IsNull(frameIntervalMs)
   /\ ~IsNull(lastFrame.sinceRender)
   /\ Val(lastFrame.sinceRender) < Val(frameIntervalMs))
  => /\ lastFrame.kind = "throttled"
     /\ lastFrame.delay = Val(frameIntervalMs) - Val(lastFrame.sinceRender)
     /\ \E e \in timers : e.due = now + lastFrame.delay

\* C10: a start() that begins a run leaves elapsed time and the last-integrated
\* delta at zero, and the first advanced frame of the run advances behaviors by
\* exactly the time elapsed since that start().
C10_FreshTimeline ==
  /\ (lastCall.op = "start" /\ lastCall.err = NoError /\ startTimeMs = now /\ ~run.advanced)
       => lastIntegratedDeltaTimeMs = 0
  /\ (lastFrame.kind = "rendered" /\ lastFrame.firstOfRun)
       => lastFrame.dtMs = now - startTimeMs

-----------------------------------------------------------------------------
(* The behavior collection: addBehavior, setBehavior, removeBehavior *)

MaxListLen == 2

\* The behavior lists a caller passes: every list of at most MaxListLen instances.
ListInputs == UNION {[1..n -> BehaviorIds] : n \in 0..MaxListLen}

AddedToUnfiltered(list, b) == Append(list, b)

\* this.behaviors.filter((b) => b.type !== behavior.type).concat(behavior)
AddedTo(list, b) ==
  LET OtherType(x) == TypeOf(x) # TypeOf(b)
  IN  Append(SelectSeq(list, OtherType), b)

RemovedFromByInstance(list, given) ==
  LET Kept(x) == ~(\E i \in DOMAIN given : given[i] = x)
  IN  SelectSeq(list, Kept)

\* this.behaviors.filter((b) => !behavior.some((b2) => b2.type === b.type))
RemovedFrom(list, given) ==
  LET Kept(x) == ~(\E i \in DOMAIN given : TypeOf(given[i]) = TypeOf(x))
  IN  SelectSeq(list, Kept)

\* behavior.map((b) => b)
Copied(list) == [i \in DOMAIN list |-> list[i]]

collectionIdle == <<browserVars, rendererVars, animationHandle, timelineVars, fpsVars,
                    motionVars, cursorVars, blob, samples, run>>

\* Orbweaver.addBehavior(behavior)
AddBehavior(b) ==
  /\ behaviors' = AddedTo(behaviors, b)
  /\ lastCall' = Call("addBehavior", <<b>>, NoError)
  /\ lastFrame' = NoFrame
  /\ UNCHANGED collectionIdle

\* Orbweaver.setBehavior(behavior)
SetBehavior(list) ==
  /\ behaviors' = Copied(list)
  /\ lastCall' = Call("setBehavior", list, NoError)
  /\ lastFrame' = NoFrame
  /\ UNCHANGED collectionIdle

\* Orbweaver.removeBehavior(behavior)
RemoveBehavior(list) ==
  /\ behaviors' = RemovedFrom(behaviors, list)
  /\ lastCall' = Call("removeBehavior", list, NoError)
  /\ lastFrame' = NoFrame
  /\ UNCHANGED collectionIdle

InitBehaviors == \E list \in ListInputs : Constructed("r1", Null, list)

NextBehaviors ==
  \/ \E b \in BehaviorIds : AddBehavior(b)
  \/ \E list \in ListInputs : SetBehavior(list)
  \/ \E list \in ListInputs : RemoveBehavior(list)

SpecBehaviors == InitBehaviors /\ [][NextBehaviors]_vars

TypesOf(list) == {TypeOf(list[i]) : i \in DOMAIN list}
OfType(list, t) == {i \in DOMAIN list : TypeOf(list[i]) = t}

\* C4: after addBehavior(b) the collection holds exactly one behavior of b's type,
\* it is the instance b, and the behaviors of other types keep their relative order.
C4_AddReplacesByType ==
  [][lastCall'.op = "addBehavior" =>
       LET b == lastCall'.arg[1]
           Other(x) == TypeOf(x) # TypeOf(b)
       IN  /\ Cardinality(OfType(behaviors', TypeOf(b))) = 1
           /\ \A i \in OfType(behaviors', TypeOf(b)) : behaviors'[i] = b
           /\ SelectSeq(behaviors', Other) = SelectSeq(behaviors, Other)]_vars

C4_Witness ==
  /\ lastCall.op = "addBehavior"
  /\ TypeOf(lastCall.arg[1]) = "rotate"
  /\ Len(behaviors) >= 2
  /\ behaviors[Len(behaviors)] = lastCall.arg[1]

\* C5: the collection holds at most one behavior per type tag in every reachable state.
C5_OnePerType ==
  \A i, j \in DOMAIN behaviors : i # j => TypeOf(behaviors[i]) # TypeOf(behaviors[j])

\* C6: removeBehavior(list) removes exactly the registered behaviors whose type is the
\* type of some element of list, keeps the others in their order, and changes
\* nothing when no registered behavior has such a type.
C6_RemoveByType ==
  [][lastCall'.op = "removeBehavior" =>
       LET gone == TypesOf(lastCall'.arg)
           Stays(x) == TypeOf(x) \notin gone
       IN  /\ TypesOf(behaviors') \cap gone = {}
           /\ behaviors' = SelectSeq(behaviors, Stays)
           /\ (TypesOf(behaviors) \cap gone = {} => behaviors' = behaviors)]_vars

C6_Witness ==
  /\ lastCall.op = "removeBehavior"
  /\ lastCall.arg = <<"rotB">>
  /\ behaviors = <<"bob">>

-----------------------------------------------------------------------------
(* Sampling: the renderer calls intensityAt while renderer.render runs *)

\* Cells the renderer samples, as <<col, row>>, and cursor cells a caller reports.
SampleCells == {<<1, 0>>, <<2, 1>>}
CursorInputs == {<<Null, Null>>, <<Some(1), Some(1)>>}
FrameBehaviorLists == {<<"rotA", "bob", "orbit", "cross">>}

SampledFrameStateAdvancing == [frameState EXCEPT !.rotationPhase = @ + 1]

\* this.frameState after intensityAt returns: the sampler destructures it and assigns nothing.
SampledFrameState == frameState

\* How often a cell was sampled in this frame, counted up to two.
Sampled(cell, value) ==
  [value |-> value,
   times |-> IF cell \in DOMAIN samples THEN 2 ELSE 1]

\* (c, r) => this.intensityAt(c, r), called by renderer.render from the loop callback
\* that has just advanced the frame.
Sample(col, row) ==
  /\ lastFrame.kind = "rendered"
  /\ renderer # NoRenderer
  /\ samples' = AccPut(samples, <<col, row>>, Sampled(<<col, row>>, IntensityAt(col, row)))
  /\ frameState' = SampledFrameState
  /\ lastCall' = Call("intensityAt", <<col, row>>, NoError)
  /\ UNCHANGED <<browserVars, rendererVars, animationHandle, timelineVars, fpsVars,
                 behaviors, behaviorState, impulseOffsetUnits,
                 impulseVelocityUnitsPerSecond, cursorVars, blob, lastFrame, run>>

\* Orbweaver.updateCursor(x, y)
UpdateCursor(x, y) ==
  /\ crosshairRow' = x
  /\ crosshairCol' = y
  /\ Returned("updateCursor")
  /\ UNCHANGED <<browserVars, rendererVars, animationHandle, timelineVars, fpsVars,
                 motionVars, behaviors, debugCrosshair, blob, samples, run>>

\* Orbweaver.setDebugCrosshair(show)
SetDebugCrosshair(show) ==
  /\ debugCrosshair' = show
  /\ Returned("setDebugCrosshair")
  /\ UNCHANGED <<browserVars, rendererVars, animationHandle, timelineVars, fpsVars,
                 motionVars, behaviors, crosshairRow, crosshairCol, blob, samples, run>>

InitFrame == \E list \in FrameBehaviorLists : Constructed("r1", Null, list)

NextFrame ==
  \/ Tick
  \/ Start
  \/ AnimationFrame
  \/ \E cell \in SampleCells : Sample(cell[1], cell[2])
  \/ \E c \in CursorInputs : UpdateCursor(c[1], c[2])
  \/ \E show \in BOOLEAN : SetDebugCrosshair(show)
  \/ \E force \in ForceInputs : Impulse(force)

SpecFrame == InitFrame /\ [][NextFrame]_vars

\* C8: a call of intensityAt leaves frameState, the behaviors' state, the impulse
\* offset and velocity and the cached geometry as they were, and a cell sampled
\* again in the same frame yields the value it yielded before.
C8_SamplingReadsOnly ==
  [][lastCall'.op = "intensityAt" =>
       /\ UNCHANGED <<frameState, behaviorState, impulseOffsetUnits,
                      impulseVelocityUnitsPerSecond, geometry>>
       /\ lastCall'.arg \in DOMAIN samples =>
            samples'[lastCall'.arg].value = samples[lastCall'.arg].value]_vars

C8_Witness ==
  /\ lastCall.op = "intensityAt"
  /\ DOMAIN samples = SampleCells
  /\ samples[lastCall.arg].times = 2
  /\ samples[lastCall.arg].value \in 1..999
  /\ frameState.rotationPhase # 0
  /\ ~IsNull(frameState.cursorTheta)

-----------------------------------------------------------------------------
(* Resize notifications and renderer swaps *)

\* The callback setupRenderer passes to renderer.onResize: it reads the size of the
\* renderer attached when it runs.
ResizeCallback == IF renderer = NoRenderer THEN geometry ELSE GeometryOf(renderer)

\* Renderer r changes size and calls the resize callbacks subscribed on it.
RendererResize(r) ==
  /\ \E i \in DOMAIN CanvasSizes(r) :
       /\ CanvasSizes(r)[i] # canvas[r]
       /\ canvas' = [canvas EXCEPT ![r] = CanvasSizes(r)[i]]
  /\ UNCHANGED renderer
  /\ geometry' = IF resizeListeners[r] # {} THEN ResizeCallback' ELSE geometry
  /\ lastCall' = Call("resize", <<r>>, NoError)
  /\ lastFrame' = NoFrame
  /\ UNCHANGED <<browserVars, canvasRenderer, resizeListeners, nextListener, unsubscribeResize,
                 animationHandle, timelineVars, fpsVars, motionVars, behaviors,
                 cursorVars, blob, samples, run>>

InitResize == \E r \in {NoRenderer, "r1"} : Constructed(r, Null, <<"rotA">>)

NextResize ==
  \/ Tick
  \/ Start
  \/ Stop
  \/ AnimationFrame
  \/ \E r \in RendererIds : RendererResize(r)
  \/ \E r \in RendererIds : SetRenderer(r)

SpecResize == InitResize /\ [][NextResize]_vars

\* C11: while a renderer is attached and the engine is Running, a resize
\* notification from that renderer leaves the cached geometry equal to the
\* renderer's current pixel and grid size, and every frame of a Running engine
\* renders with that geometry.
C11_ResizeRefreshesGeometry ==
  /\ (lastCall.op = "resize" /\ lastCall.arg = <<renderer>> /\ run.state = "Running")
       => geometry = GeometryOf(renderer)
  /\ (lastFrame.kind = "rendered" /\ run.state = "Running")
       => geometry = GeometryOf(renderer)

\* C12: after setRenderer(r) the cached geometry is r's, and the engine holds one
\* resize subscription, on r, and none on any other renderer.
C12_OneSubscriptionAfterSwap ==
  lastCall.op = "setRenderer" =>
    /\ geometry = GeometryOf(renderer)
    /\ ~IsNull(unsubscribeResize)
    /\ \A x \in RendererIds :
         resizeListeners[x] = IF x = renderer THEN {Val(unsubscribeResize).token} ELSE {}

-----------------------------------------------------------------------------
(* Impulses and their integration by advanceBehaviors *)

\* Forces callers pass to impulse() and frame deltas (ms) the loop passes to
\* advanceBehaviors.
KickInputs == {[x |-> ImpulseUnit, y |-> 0], [x |-> -(ImpulseUnit \div 2), y |-> ImpulseUnit \div 2]}
DtInputs == {16, 33, 100}

\* The loop callback fires dtMs after the previous frame and calls
\* advanceBehaviors(dtSeconds) with dtSeconds = dtMs / 1000.
Advance(dtMs) ==
  LET adv == AdvanceBehaviors(dtMs)
  IN  /\ now + dtMs <= MaxRunMs
      /\ now' = now + dtMs
      /\ behaviorState' = adv.behaviorState
      /\ impulseOffsetUnits' = adv.impulseOffsetUnits
      /\ impulseVelocityUnitsPerSecond' = adv.impulseVelocityUnitsPerSecond
      /\ frameState' = adv.frameState
      /\ lastCall' = Call("advanceBehaviors", <<dtMs>>, NoError)
      /\ lastFrame' = NoFrame
      /\ UNCHANGED <<rafQueue, timers, rendererVars, animationHandle, timelineVars, fpsVars,
                     behaviors, cursorVars, blob, samples, run>>

InitImpulse == Constructed("r1", Null, <<>>)

NextImpulse ==
  \/ \E force \in KickInputs : Impulse(force)
  \/ now < MaxKickMs /\ Advance(100)

SpecImpulse == InitImpulse /\ [][NextImpulse]_vars

AddForce(f, g) == [x |-> f.x + g.x, y |-> f.y + g.y]

\* C13: impulse(force) adds force.x and force.y to the impulse velocity and leaves the
\* impulse offset, the behaviors, frameState and the run state as they were; two
\* impulses in a row leave the velocity one impulse with the summed force leaves.
C13_ImpulseAddsVelocity ==
  /\ [][lastCall'.op = "impulse" =>
          /\ impulseVelocityUnitsPerSecond'.x
               = impulseVelocityUnitsPerSecond.x + lastCall'.arg[1].x
          /\ impulseVelocityUnitsPerSecond'.y
               = impulseVelocityUnitsPerSecond.y + lastCall'.arg[1].y
          /\ UNCHANGED <<impulseOffsetUnits, behaviors, behaviorState, frameState,
                         run, animationHandle, rafQueue, timers>>]_vars
  /\ [](\A f, g \in KickInputs :
          KickedVelocity(KickedVelocity(impulseVelocityUnitsPerSecond, f), g)
            = KickedVelocity(impulseVelocityUnitsPerSecond, AddForce(f, g)))

C13_Witness ==
  /\ lastCall.op = "impulse"
  /\ impulseOffsetUnits.x > 0
  /\ impulseVelocityUnitsPerSecond.x # lastCall.arg[1].x
  /\ impulseVelocityUnitsPerSecond.y # 0

-----------------------------------------------------------------------------
(* One impulse from rest, integrated by frames of a constant delta *)

AtRest(axis) == impulseOffsetUnits[axis] = 0 /\ impulseVelocityUnitsPerSecond[axis] = 0

\* impulse({x: 1, y: 0}) on the engine as constructed
KickFromRest == lastCall.op = "new" /\ Impulse([x |-> ImpulseUnit, y |-> 0])

\* A frame whose delta is the delta of the frame before it.
SteadyFrame(dtMs) ==
  /\ lastCall.op = "advanceBehaviors" => lastCall.arg = <<dtMs>>
  /\ Advance(dtMs)

InitSettle == Constructed("r1", Null, <<>>)

NextSettle ==
  \/ KickFromRest
  \/ \E dtMs \in DtInputs : SteadyFrame(dtMs)

SpecSettle == InitSettle /\ [][NextSettle]_vars

\* C14: after impulse({x:1,y:0}) from rest and frames of a constant small dt,
\* offset.x rises on the first frame, then falls on every frame without becoming
\* negative, offset.x and velocity.x are exactly 0 once MaxSettleMs have been
\* integrated, and a frame at rest leaves them 0.
C14_ImpulseSettles ==
  /\ [](impulseOffsetUnits.x >= 0)
  /\ [][(lastCall.op = "impulse" /\ lastCall'.op = "advanceBehaviors")
          => impulseOffsetUnits'.x > impulseOffsetUnits.x]_vars
  /\ [][(lastCall'.op = "advanceBehaviors" /\ impulseVelocityUnitsPerSecond.x < 0)
          => /\ impulseOffsetUnits'.x < impulseOffsetUnits.x
             /\ impulseVelocityUnitsPerSecond'.x <= 0]_vars
  /\ [](now >= MaxSettleMs => AtRest("x"))
  /\ [][(lastCall'.op = "advanceBehaviors" /\ AtRest("x")) => AtRest("x")']_vars

C14_Witness ==
  /\ lastCall.op = "advanceBehaviors"
  /\ impulseOffsetUnits.x > 0
  /\ impulseOffsetUnits.x < ImpulseEps
  /\ impulseVelocityUnitsPerSecond.x < 0

-----------------------------------------------------------------------------
(* The cursor deformation and the Crosshair behavior *)

CursorBehaviorLists == {<<"rotA">>, <<"rotA", "cross">>}

\* The cursorInfluence the registered behaviors contribute in one frame.
RECURSIVE CursorInfluence(_, _)
CursorInfluence(list, st) ==
  IF list = <<>> THEN 0
  ELSE AccGet(Contribute(st[Head(list)], EmptyAcc), Channels.cursorInfluence)
       + CursorInfluence(Tail(list), st)

InitCursor == \E list \in CursorBehaviorLists : Constructed("r2", Null, list)

NextCursor ==
  \/ Tick
  \/ Start
  \/ AnimationFrame
  \/ \E cell \in SampleCells : Sample(cell[1], cell[2])
  \/ \E c \in CursorInputs : UpdateCursor(c[1], c[2])

SpecCursor == InitCursor /\ [][NextCursor]_vars

\* C15: the sampled radius is deformed toward the cursor only when a cursor
\* position is set and the cursorInfluence accumulated from the registered
\* behaviors is positive, with the strength scaled by that influence; otherwise
\* intensityAt uses the undeformed blob radius.
C15_DeformationGatedByInfluence ==
  lastCall.op = "intensityAt" =>
    LET influence == CursorInfluence(behaviors, behaviorState)
        value == samples[lastCall.arg].value
    IN  value = IF ~IsNull(frameState.cursorTheta) /\ influence > 0
                THEN IntensityFor(lastCall.arg[1], lastCall.arg[2], frameState,
                                  Quot(CursorStrength * influence, 1000))
                ELSE IntensityFor(lastCall.arg[1], lastCall.arg[2],
                                  [frameState EXCEPT !.cursorTheta = Null], CursorStrength)

-----------------------------------------------------------------------------
(* CrosshairBehavior: construction, set and contribute *)

\* Strengths callers pass, in thousandths: below 0, inside [0, 1] and above 1.
MaxStrengthStep == 40
StrengthInputs == {Some(50 * k - 500) : k \in 0..MaxStrengthStep} \cup {Null}

Clamp01Unbounded(v) == v

\* Math.max(0, Math.min(1, v))
Clamp01(v) == Max(0, Min(1000, v))

\* new CrosshairBehavior({strength}): params?.strength ?? 1
CrosshairBehavior(strength) ==
  [type |-> "crosshair", strength |-> Clamp01(IF IsNull(strength) THEN 1000 ELSE Val(strength))]

\* CrosshairBehavior.set({strength}) on instance b: undefined leaves the strength.
CrosshairSet(b, strength) ==
  IF IsNull(strength) THEN b ELSE [b EXCEPT !.strength = Clamp01(Val(strength))]

behaviorIdle == <<browserVars, rendererVars, animationHandle, timelineVars, fpsVars,
                  impulseOffsetUnits, impulseVelocityUnitsPerSecond, frameState,
                  behaviors, cursorVars, blob, samples, run>>

\* const b = new CrosshairBehavior({strength})
ConstructCrosshair(strength) ==
  /\ behaviorState' = [behaviorState EXCEPT !["cross"] = CrosshairBehavior(strength)]
  /\ lastCall' = Call("new CrosshairBehavior", strength, NoError)
  /\ lastFrame' = NoFrame
  /\ UNCHANGED behaviorIdle

\* b.set({strength})
SetCrosshair(strength) ==
  /\ behaviorState' = [behaviorState EXCEPT !["cross"] = CrosshairSet(@, strength)]
  /\ lastCall' = Call("CrosshairBehavior.set", strength, NoError)
  /\ lastFrame' = NoFrame
  /\ UNCHANGED behaviorIdle

InitCrosshair == Constructed("r1", Null, <<"cross">>)

NextCrosshair ==
  \/ \E strength \in StrengthInputs : ConstructCrosshair(strength)
  \/ \E strength \in StrengthInputs : SetCrosshair(strength)

SpecCrosshair == InitCrosshair /\ [][NextCrosshair]_vars

\* C16: the strength of a CrosshairBehavior is in [0, 1] after construction and after
\* every set, it is the given strength moved to the nearest end of [0, 1], and
\* contribute adds exactly it to the cursorInfluence channel.
C16_CrosshairStrengthClamped ==
  LET b == behaviorState["cross"]
      given == lastCall.arg
  IN  /\ b.strength >= 0 /\ b.strength <= 1000
      /\ (lastCall.op \in {"new CrosshairBehavior", "CrosshairBehavior.set"} /\ ~IsNull(given))
           => b.strength = (IF Val(given) < 0 THEN 0
                            ELSE IF Val(given) > 1000 THEN 1000 ELSE Val(given))
      /\ (lastCall.op = "new CrosshairBehavior" /\ IsNull(given)) => b.strength = 1000
      /\ \A before \in {0, 300} :
           LET acc == IF before = 0 THEN EmptyAcc
                      ELSE AccPut(EmptyAcc, Channels.cursorInfluence, before)
           IN  AccGet(Contribute(b, acc), Channels.cursorInfluence) = before + b.strength

C16_Witness ==
  /\ lastCall.op = "CrosshairBehavior.set"
  /\ lastCall.arg = Some(1500)
  /\ behaviorState["cross"].strength = 1000

-----------------------------------------------------------------------------
(* RotateBehavior under frames of any length *)

RotateDtInputs == {0, 250, 500, 1000, 3000}
RotateLists == {<<"rotA">>, <<"rotB">>}

InitRotate == \E list \in RotateLists : Constructed("r1", Null, list)

NextRotate == \E dtMs \in RotateDtInputs : Advance(dtMs)

SpecRotate == InitRotate /\ [][NextRotate]_vars

\* C17: a RotateBehavior of fixed speed and direction contributes, after any
\* sequence of update(dt) with dt >= 0, the rotationPhase speed * direction * (sum
\* of the dt), whatever the chunks the time came in.
C17_RotateLinear ==
  LET b == behaviorState[behaviors[1]]
  IN  /\ b.phase = b.speed * b.direction * now
      /\ AccGet(Contribute(b, EmptyAcc), Channels.rotationPhase) = b.speed * b.direction * now

C17_Witness ==
  /\ behaviors = <<"rotB">>
  /\ now = 3000
  /\ lastCall.op = "advanceBehaviors"
  /\ lastCall.arg = <<1000>>
  /\ behaviorState["rotB"].phase = -6000

-----------------------------------------------------------------------------
(* BobBehavior: set({amplitude}) and the smoothed amplitude *)

\* Target amplitudes callers set (thousandths) and frame deltas: two frame-sized
\* ones and one as long as a frame after the page was in the background.
AmplitudeInputs == {0, 50, 400}
BobDtInputs == {33, 100, 4000}

BobSetSnapping(b, amplitude) == [b EXCEPT !.amplitude = amplitude, !.currentAmplitude = amplitude]

\* BobBehavior.set({amplitude}): this.amplitude = params.amplitude
BobSet(b, amplitude) == [b EXCEPT !.amplitude = amplitude]

\* b.set({amplitude}) on the registered instance
SetBob(amplitude) ==
  /\ behaviorState' = [behaviorState EXCEPT !["bob"] = BobSet(@, amplitude)]
  /\ lastCall' = Call("BobBehavior.set", <<amplitude>>, NoError)
  /\ lastFrame' = NoFrame
  /\ UNCHANGED behaviorIdle

InitBob == Constructed("r1", Null, <<"bob">>)

NextBob ==
  \/ \E amplitude \in AmplitudeInputs : SetBob(amplitude)
  \/ \E dtMs \in BobDtInputs : now < MaxKickMs /\ Advance(dtMs)

SpecBob == InitBob /\ [][NextBob]_vars

BobY(st) == AccGet(Contribute(st["bob"], EmptyAcc), Channels.yOffsetUnits)
BobDistance(st) == Abs(st["bob"].currentAmplitude - st["bob"].amplitude)

-----------------------------------------------------------------------------
(* The range of the sampler under any harmonics *)

\* Harmonic arrays a caller passes to setBlobHarmonics: the preset, one whose
\* radius is negative below the center, and one whose radius is 0 at every angle
\* while the rotation phase is 0.
HarmonicInputs == { RippledPreset,
                    << [amplitude |-> 10000, frequency |-> 1000, phase |-> 0] >>,
                    << [amplitude |-> 4592, frequency |-> 0, phase |-> -1571] >> }

\* Orbweaver.setBlobHarmonics(input) with an array: BlobModel.setHarmonics
SetBlobHarmonics(input) ==
  /\ blob' = SetHarmonics(blob, input, TRUE)
  /\ lastCall' = Call("setBlobHarmonics", <<input>>, NoError)
  /\ lastFrame' = NoFrame
  /\ UNCHANGED <<browserVars, rendererVars, animationHandle, timelineVars, fpsVars,
                 motionVars, behaviors, cursorVars, samples, run>>

InitIntensity == Constructed("r2", Null, <<"rotA", "orbit">>)

NextIntensity ==
  \/ Tick
  \/ Start
  \/ AnimationFrame
  \/ Sample(1, 0)
  \/ \E c \in CursorInputs : UpdateCursor(c[1], c[2])
  \/ \E input \in HarmonicInputs : SetBlobHarmonics(input)
  \/ \E force \in ForceInputs : Impulse(force)

SpecIntensity == InitIntensity /\ [][NextIntensity]_vars

\* C19: intensityAt(col, row) is in [0, 1] for every cell of the grid, in every
\* frame state the behaviors and impulses produce, under every harmonic set and
\* every cursor position.
C19_IntensityInUnitRange ==
  /\ \A col \in 0..(geometry.cols - 1), row \in 0..(geometry.rows - 1) :
       LET v == IntensityAt(col, row) IN v >= 0 /\ v <= 1000
  /\ \A cell \in DOMAIN samples : samples[cell].value >= 0 /\ samples[cell].value <= 1000

C19_Witness ==
  /\ lastCall.op = "intensityAt"
  /\ lastCall.arg = <<1, 0>>
  /\ RadiusAt(-HalfPiMilli, frameState.rotationPhase) < 0
  /\ samples[<<1, 0>>].value = 1000
  /\ ~IsNull(frameState.cursorTheta)

-----------------------------------------------------------------------------
(* generateHarmonics *)

MaxHarmonics == 4

\* Generation parameters a caller passes; "linear" is not a FrequencySpacing.
GenParamInputs ==
  [numHarmonics : -1..MaxHarmonics,
   baseFrequency : {500, 1000, 3000},
   frequencySpacing : {"harmonic", "geometric", "additive", "linear"},
   phaseSpread : {-524, 0, 785}]

\* Orbweaver.setBlobHarmonics(input) with generation parameters:
\* BlobModel.setHarmonics calls generateHarmonics(input)
GenerateBlobHarmonics(params) ==
  /\ blob' = SetHarmonics(blob, params, FALSE)
  /\ lastCall' = Call("generateHarmonics", <<params>>, NoError)
  /\ lastFrame' = NoFrame
  /\ UNCHANGED <<browserVars, rendererVars, animationHandle, timelineVars, fpsVars,
                 motionVars, behaviors, cursorVars, samples, run>>

InitHarmonics == Constructed("r2", Null, <<"rotA">>)

NextHarmonics == \E params \in GenParamInputs : GenerateBlobHarmonics(params)

SpecHarmonics == InitHarmonics /\ [][NextHarmonics]_vars

\* C20: generateHarmonics returns numHarmonics entries when numHarmonics >= 1 and
\* none when numHarmonics <= 0; entry i has phase i*phaseSpread and frequency
\* baseFrequency*(i+1) for 'harmonic' and for any unrecognized spacing, and
\* baseFrequency+i for 'additive'; the call does not raise.
C20_GeneratedHarmonics ==
  lastCall.op = "generateHarmonics" =>
    LET params == lastCall.arg[1]
        harmonics == blob.harmonics
    IN  /\ lastCall.err = NoError
        /\ params.numHarmonics >= 1 => Len(harmonics) = params.numHarmonics
        /\ params.numHarmonics <= 0 => harmonics = <<>>
        /\ \A i \in 0..(Len(harmonics) - 1) :
             /\ harmonics[i + 1].phase = i * params.phaseSpread
             /\ params.frequencySpacing = "harmonic"
                  => harmonics[i + 1].frequency = params.baseFrequency * (i + 1)
             /\ params.frequencySpacing = "additive"
                  => harmonics[i + 1].frequency = params.baseFrequency + 1000 * i
             /\ params.frequencySpacing \notin {"harmonic", "geometric", "additive"}
                  => harmonics[i + 1].frequency = params.baseFrequency * (i + 1)

C20_Witness ==
  /\ lastCall.op = "generateHarmonics"
  /\ lastCall.arg[1].frequencySpacing = "linear"
  /\ lastCall.arg[1].numHarmonics = 4
  /\ lastCall.arg[1].phaseSpread = 785
  /\ [i \in 1..4 |-> blob.harmonics[i].frequency] = <<3000, 6000, 9000, 12000>>
  /\ blob.harmonics[4].phase = 2355

-----------------------------------------------------------------------------
(* BlobModel: replacing the harmonics and evaluating the radius *)

AngleInputs == {-1571, 0, 785, 3142}
PhaseTimeInputs == {0, 1000, 2500}

\* A call of blob.radiusAt(angle, timeSeconds), as intensityAt makes it; the
\* returned radius is kept with the call.
RadiusAtCall(angle, timeSeconds) ==
  /\ lastCall' = Call("radiusAt", <<angle, timeSeconds, RadiusAt(angle, timeSeconds)>>, NoError)
  /\ lastFrame' = NoFrame
  /\ UNCHANGED <<browserVars, rendererVars, animationHandle, timelineVars, fpsVars,
                 motionVars, behaviors, cursorVars, blob, samples, run>>

InitBlob == Constructed("r2", Null, <<"rotA">>)

NextBlob ==
  \/ \E input \in HarmonicInputs \cup {<<>>} : SetBlobHarmonics(input)
  \/ \E params \in GenParamInputs : GenerateBlobHarmonics(params)
  \/ \E angle \in AngleInputs, timeSeconds \in PhaseTimeInputs : RadiusAtCall(angle, timeSeconds)

SpecBlob == InitBlob /\ [][NextBlob]_vars

\* C21: after setBlobHarmonics(input) the blob's harmonics are exactly the input
\* array, or exactly generateHarmonics(input) for generation parameters; nothing
\* of the previous set remains and the next radiusAt call uses only the new set.
C21_SetReplacesHarmonics ==
  /\ [](lastCall.op = "setBlobHarmonics" => blob.harmonics = lastCall.arg[1])
  /\ [](lastCall.op = "generateHarmonics" => blob.harmonics = GenerateHarmonics(lastCall.arg[1]))
  /\ [][(lastCall.op = "setBlobHarmonics" /\ lastCall'.op = "radiusAt")
          => lastCall'.arg[3] = RadiusSum(blob', lastCall.arg[1],
                                          lastCall'.arg[1], lastCall'.arg[2])]_vars
  /\ [][(lastCall.op = "generateHarmonics" /\ lastCall'.op = "radiusAt")
          => lastCall'.arg[3] = RadiusSum(blob', GenerateHarmonics(lastCall.arg[1]),
                                          lastCall'.arg[1], lastCall'.arg[2])]_vars

C21_Witness ==
  /\ lastCall.op = "radiusAt"
  /\ lastCall.arg[1] = -1571
  /\ blob.harmonics = << [amplitude |-> 10000, frequency |-> 1000, phase |-> 0] >>
  /\ lastCall.arg[3] < 0

\* C22: radiusAt(angle, phaseTime) equals baseRadius + amplitude * sum over the
\* harmonics of h.amplitude * sin(h.frequency*angle + h.phase + phaseTime), the
\* phaseTime entering the sine as given; with no harmonics it is baseRadius.
C22_RadiusFormula ==
  LET RECURSIVE Stated(_, _, _)
      Stated(hs, angle, phaseTime) ==
        IF hs = <<>> THEN blob.baseRadius
        ELSE LET h == hs[Len(hs)]
             IN  Stated(SubSeq(hs, 1, Len(hs) - 1), angle, phaseTime)
                 + Quot(Quot(blob.amplitude * h.amplitude, 1000)
                        * SinMilli(Quot(h.frequency * angle, 1000) + h.phase + phaseTime),
                        1000)
  IN  lastCall.op = "radiusAt" =>
        /\ lastCall.arg[3] = Stated(blob.harmonics, lastCall.arg[1], lastCall.arg[2])
        /\ blob.harmonics = <<>> => lastCall.arg[3] = blob.baseRadius

-----------------------------------------------------------------------------
(* Target frame rate *)

FpsInputs == {Null, Some(0), Some(60), Some(500)}

\* Orbweaver.getTargetFPS(); the returned value is kept with the call.
GetTargetFPS ==
  /\ lastCall' = Call("getTargetFPS", <<targetFPS>>, NoError)
  /\ lastFrame' = NoFrame
  /\ UNCHANGED <<browserVars, animationHandle, timelineVars, fpsVars, motionVars,
                 engineIdle, run>>

InitFps == Constructed("r1", Null, <<"rotA">>)

NextFps ==
  \/ Tick
  \/ Start
  \/ AnimationFrame
  \/ \E fps \in FpsInputs : SetTargetFPS(fps)
  \/ GetTargetFPS

SpecFps == InitFps /\ [][NextFps]_vars

\* C23: setTargetFPS(null) and setTargetFPS(0) select unlimited mode (no frame
\* interval), setTargetFPS(fps) with fps > 0 sets the interval to 1000/fps ms;
\* getTargetFPS() returns null whenever the engine is in unlimited mode and the
\* positive target otherwise.
C23_TargetFps ==
  /\ lastCall.op = "setTargetFPS" =>
       IF IsNull(targetFPS) \/ Val(targetFPS) = 0
       THEN IsNull(frameIntervalMs)
       ELSE Val(targetFPS) > 0 => frameIntervalMs = Some(Quot(1000, Val(targetFPS)))
  /\ lastCall.op = "getTargetFPS" =>
       IF IsNull(frameIntervalMs)
       THEN IsNull(lastCall.arg[1])
       ELSE ~IsNull(lastCall.arg[1]) /\ Val(lastCall.arg[1]) > 0
            /\ frameIntervalMs = Some(Quot(1000, Val(lastCall.arg[1])))

-----------------------------------------------------------------------------
(* The dt of advanced frames *)

\* C24: within one run the dt passed to the behaviors on an advanced frame is
\* never negative and equals the time elapsed since the previous advanced frame
\* of that run (since start() for the first one), so that throttled time is
\* carried over and the dt values of a run sum to the time between start() and
\* the last advanced frame.
C24_DtIsElapsedTime ==
  lastFrame.kind = "rendered" =>
    /\ lastFrame.dtMs >= 0
    /\ lastFrame.dtMs = IF lastFrame.firstOfRun
                        THEN now - startTimeMs
                        ELSE Val(lastFrame.sinceRender)

-----------------------------------------------------------------------------
(* The frame state advanceBehaviors builds *)

AdvanceLists == {<<>>, <<"rotA", "rotB", "orbit">>, <<"rotA", "bob", "orbit", "cross">>}
AdvanceDtInputs == {50, 100}
AdvanceCursorInputs == {<<Null, Null>>, <<Some(1), Null>>, <<Null, Some(0)>>, <<Some(1), Some(0)>>}

InitAdvance ==
  \E r \in {NoRenderer, "r2"}, list \in AdvanceLists : Constructed(r, Null, list)

NextAdvance ==
  \/ \E force \in ForceInputs : now < MaxKickMs /\ Impulse(force)
  \/ \E c \in AdvanceCursorInputs : now < MaxKickMs /\ UpdateCursor(c[1], c[2])
  \/ \E dtMs \in AdvanceDtInputs : now < MaxAdvanceMs /\ Advance(dtMs)

SpecAdvance == InitAdvance /\ [][NextAdvance]_vars

\* C25: after a frame advance frameState.rotationPhase is the sum of the
\* behaviors' rotationPhase contributions, xOffsetUnits / yOffsetUnits are the
\* sums of their x / y contributions plus the impulse offset of that axis; a
\* channel no behavior wrote counts as 0 and other channels have no effect.
C25_FrameStateIsSum ==
  LET RECURSIVE Sum(_, _)
      Sum(channel, n) ==
        IF n = 0 THEN 0
        ELSE Sum(channel, n - 1)
             + AccGet(Contribute(behaviorState[behaviors[n]], EmptyAcc), channel)
  IN  lastCall.op = "advanceBehaviors" =>
        /\ frameState.rotationPhase = Sum(Channels.rotationPhase, Len(behaviors))
        /\ frameState.xOffsetUnits = Sum(Channels.xOffsetUnits, Len(behaviors))
                                     + Quot(impulseOffsetUnits.x * 1000, ImpulseUnit)
        /\ frameState.yOffsetUnits = Sum(Channels.yOffsetUnits, Len(behaviors))
                                     + Quot(impulseOffsetUnits.y * 1000, ImpulseUnit)
        /\ behaviors = <<>> => frameState.rotationPhase = 0

C25_Witness ==
  /\ lastCall.op = "advanceBehaviors"
  /\ behaviors = <<"rotA", "bob", "orbit", "cross">>
  /\ impulseOffsetUnits.x >= 1000
  /\ frameState.rotationPhase > 0
  /\ frameState.yOffsetUnits # 0
  /\ frameState.xOffsetUnits # Quot(CosMilli(behaviorState["orbit"].phase) * 150, 1000)

\* C26: cursorTheta and cursorDistanceUnits are both null or both non-null; after
\* a frame advance with a renderer and a non-empty grid they are non-null exactly
\* when both cursor coordinates were non-null, so after updateCursor(null, null)
\* both are null from the next advanced frame on.
C26_CursorFieldsPaired ==
  /\ IsNull(frameState.cursorTheta) <=> IsNull(frameState.cursorDistanceUnits)
  /\ (lastCall.op = "advanceBehaviors" /\ renderer # NoRenderer
      /\ geometry.cols > 0 /\ geometry.rows > 0)
       => (~IsNull(frameState.cursorTheta)
            <=> (~IsNull(crosshairRow) /\ ~IsNull(crosshairCol)))

C26_Witness ==
  /\ lastCall.op = "advanceBehaviors"
  /\ renderer = "r2"
  /\ crosshairRow = Null /\ crosshairCol = Null
  /\ frameState.cursorTheta = Null /\ frameState.cursorDistanceUnits = Null
  /\ now >= 200

-----------------------------------------------------------------------------
(* Behavior.contribute on a shared accumulator *)

\* Accumulators a caller hands to contribute: a fresh one and one that already
\* holds a value on every channel.
AccInputs == { EmptyAcc,
               [c \in {Channels.rotationPhase, Channels.xOffsetUnits,
                       Channels.yOffsetUnits, Channels.cursorInfluence} |->
                  CASE c = Channels.rotationPhase -> 100
                    [] c = Channels.xOffsetUnits -> 20
                    [] c = Channels.yOffsetUnits -> -30
                    [] OTHER -> 500] }

\* OrbitBehavior.set({ axis })
SetOrbitAxis(axis) ==
  /\ behaviorState' = [behaviorState EXCEPT !["orbit"].axis = axis]
  /\ lastCall' = Call("set", <<"orbit", axis>>, NoError)
  /\ lastFrame' = NoFrame
  /\ UNCHANGED <<browserVars, animationHandle, timelineVars, fpsVars, impulseOffsetUnits,
                 impulseVelocityUnitsPerSecond, frameState, engineIdle, run>>

\* behavior.contribute(acc) on the instance id; the accumulator before and after
\* the call is kept with the call.
ContributeTo(id, acc) ==
  /\ lastCall' = Call("contribute", <<id, acc, Contribute(behaviorState[id], acc)>>, NoError)
  /\ lastFrame' = NoFrame
  /\ UNCHANGED <<browserVars, animationHandle, timelineVars, fpsVars, motionVars,
                 engineIdle, run>>

\* A second contribute call into the accumulator the previous call wrote.
ContributeAgain(id) ==
  /\ lastCall.op = "contribute"
  /\ lastCall.arg[2] \in AccInputs
  /\ ContributeTo(id, lastCall.arg[3])

InitContribute == Constructed("r2", Null, <<"rotA", "bob", "orbit", "cross">>)

NextContribute ==
  \/ (now < MaxAdvanceMs /\ Advance(100))
  \/ \E axis \in {"x", "y", "both"} : SetOrbitAxis(axis)
  \/ \E id \in {"rotA", "bob", "orbit", "cross"}, acc \in AccInputs : ContributeTo(id, acc)
  \/ \E id \in {"rotA", "bob", "orbit", "cross"} : ContributeAgain(id)

SpecContribute == InitContribute /\ [][NextContribute]_vars

\* C27: contribute(acc) of Rotate, Bob, Orbit and Crosshair leaves the behavior's
\* state unchanged and adds its current value to what acc already holds on the
\* channel; two consecutive calls into one accumulator yield twice the
\* single-call contribution.
C27_ContributeAdds ==
  /\ [][lastCall'.op = "contribute" => behaviorState' = behaviorState]_vars
  /\ [](lastCall.op = "contribute" =>
          LET Held(acc, ch) == IF ch \in DOMAIN acc THEN acc[ch] ELSE 0
              single == Contribute(behaviorState[lastCall.arg[1]], EmptyAcc)
          IN  \A ch \in {Channels.rotationPhase, Channels.xOffsetUnits,
                         Channels.yOffsetUnits, Channels.cursorInfluence} :
                Held(lastCall.arg[3], ch) = Held(lastCall.arg[2], ch) + Held(single, ch))
  /\ [][(/\ lastCall.op = "contribute" /\ lastCall'.op = "contribute"
         /\ lastCall.arg[2] = EmptyAcc
         /\ lastCall'.arg[1] = lastCall.arg[1]
         /\ lastCall'.arg[2] = lastCall.arg[3])
          => LET Held(acc, ch) == IF ch \in DOMAIN acc THEN acc[ch] ELSE 0
             IN  \A ch \in {Channels.rotationPhase, Channels.xOffsetUnits,
                            Channels.yOffsetUnits, Channels.cursorInfluence} :
                   Held(lastCall'.arg[3], ch) = 2 * Held(lastCall.arg[3], ch)]_vars

C27_Witness ==
  /\ lastCall.op = "contribute"
  /\ lastCall.arg[1] = "orbit"
  /\ behaviorState["orbit"].axis = "y"
  /\ behaviorState["orbit"].phase = 200
  /\ lastCall.arg[2] = Contribute(behaviorState["orbit"], EmptyAcc)
  /\ lastCall.arg[3][Channels.yOffsetUnits] = 2 * lastCall.arg[2][Channels.yOffsetUnits]
  /\ lastCall.arg[3][Channels.yOffsetUnits] > 0

-----------------------------------------------------------------------------
(* The interior term of the sampler *)

\* C28: in intensityAt the interior term max(0, 1 - r/radius) lies in [0, 1] and
\* is 0 for every sample at or beyond the boundary (r >= radius), also when the
\* evaluated radius is zero or negative.
C28_InteriorInUnitRange ==
  \A col \in 0..(geometry.cols - 1), row \in 0..(geometry.rows - 1) :
    LET p == CellPolar(col, row, frameState, CursorStrength)
        interior == Interior(p.r, p.radius)
    IN  /\ interior >= 0
        /\ interior <= 1000
        /\ p.r >= p.radius => interior = 0

-----------------------------------------------------------------------------
(* CanvasAsciiRenderer / CanvasGradientRenderer: resize subscriptions *)

MaxWindowListeners == 3

\* The callbacks callers subscribe, and the identities of functions: a callback
\* passed to onResize, or the n-th arrow function () => this.resize() that
\* onResize created.
CallbackIds == {"a", "b", "c"}
CallbackFn(cb) == [kind |-> "callback", id |-> cb, n |-> 0]
ArrowFn(n) == [kind |-> "arrow", id |-> "", n |-> n]

Range(seq) == {seq[i] : i \in DOMAIN seq}

\* this.resizeListeners.filter((cb) => cb !== callback)
RECURSIVE Without(_, _)
Without(seq, cb) ==
  IF seq = <<>> THEN <<>>
  ELSE IF Head(seq) = cb THEN Without(Tail(seq), cb)
  ELSE <<Head(seq)>> \o Without(Tail(seq), cb)

\* renderer.onResize(callback) with a callback that is not subscribed: attaches a
\* window listener when the array is empty, pushes the callback and returns the
\* unsubscribe function.
CanvasOnResize(cb) ==
  /\ cb \notin Range(canvasRenderer.resizeListeners)
  /\ canvasRenderer.resizeListeners = <<>> => canvasRenderer.nextArrow <= MaxWindowListeners
  /\ canvasRenderer' =
       [canvasRenderer EXCEPT
          !.windowListeners = IF canvasRenderer.resizeListeners = <<>>
                              THEN @ \cup {ArrowFn(canvasRenderer.nextArrow)}
                              ELSE @,
          !.nextArrow = IF canvasRenderer.resizeListeners = <<>> THEN @ + 1 ELSE @,
          !.resizeListeners = Append(@, cb),
          !.unsubscribers = @ \cup {cb},
          !.destroyed = FALSE]
  /\ lastCall' = Call("onResize", <<cb>>, NoError)
  /\ lastFrame' = NoFrame
  /\ UNCHANGED <<browserVars, canvas, resizeListeners, nextListener, renderer,
                 unsubscribeResize, geometry, animationHandle, timelineVars, fpsVars,
                 motionVars, behaviors, cursorVars, blob, samples, run>>

\* A call of the unsubscribe function onResize(cb) returned.
CanvasUnsubscribe(cb) ==
  /\ cb \in canvasRenderer.unsubscribers
  /\ canvasRenderer' = [canvasRenderer EXCEPT !.resizeListeners = Without(@, cb)]
  /\ lastCall' = Call("unsubscribe", <<cb>>, NoError)
  /\ lastFrame' = NoFrame
  /\ UNCHANGED <<browserVars, canvas, resizeListeners, nextListener, renderer,
                 unsubscribeResize, geometry, animationHandle, timelineVars, fpsVars,
                 motionVars, behaviors, cursorVars, blob, samples, run>>

\* renderer.destroy(): window.removeEventListener("resize", listener) for every
\* entry of resizeListeners, then the array is emptied.
CanvasDestroy ==
  /\ canvasRenderer' =
       [canvasRenderer EXCEPT
          !.windowListeners = @ \ {CallbackFn(cb) : cb \in Range(canvasRenderer.resizeListeners)},
          !.resizeListeners = <<>>,
          !.destroyed = TRUE]
  /\ lastCall' = Call("destroy", <<>>, NoError)
  /\ lastFrame' = NoFrame
  /\ UNCHANGED <<browserVars, canvas, resizeListeners, nextListener, renderer,
                 unsubscribeResize, geometry, animationHandle, timelineVars, fpsVars,
                 motionVars, behaviors, cursorVars, blob, samples, run>>

\* The window changes size and dispatches one 'resize' event: every attached arrow
\* function runs this.resize(), which runs configureCanvas() and then calls every
\* entry of resizeListeners.  Kept with the event: how often configureCanvas ran
\* and how often each callback was called.
WindowResize ==
  LET runs == Cardinality({f \in canvasRenderer.windowListeners : f.kind = "arrow"})
      rect == 3 - canvasRenderer.rect
  IN  /\ canvasRenderer' = [canvasRenderer EXCEPT !.rect = rect,
                                                  !.configured = IF runs > 0 THEN rect ELSE @]
      /\ lastCall' = Call("windowResize",
                          <<runs, [cb \in CallbackIds |->
                                     runs * Occurrences(canvasRenderer.resizeListeners, cb)]>>,
                          NoError)
      /\ lastFrame' = NoFrame
      /\ UNCHANGED <<browserVars, canvas, resizeListeners, nextListener, renderer,
                     unsubscribeResize, geometry, animationHandle, timelineVars, fpsVars,
                     motionVars, behaviors, cursorVars, blob, samples, run>>

InitCanvas == Constructed(NoRenderer, Null, <<>>)

NextCanvas ==
  \/ \E cb \in CallbackIds : CanvasOnResize(cb)
  \/ \E cb \in CallbackIds : CanvasUnsubscribe(cb)
  \/ CanvasDestroy
  \/ WindowResize

SpecCanvas == InitCanvas /\ [][NextCanvas]_vars

\* C29: a canvas renderer has at most one window 'resize' listener attached at
\* any time, whatever the sequence of onResize() calls and unsubscribe calls, so
\* one window resize event calls each subscribed callback exactly once.
C29_OneWindowListener ==
  /\ Cardinality(canvasRenderer.windowListeners) <= 1
  /\ lastCall.op = "windowResize" =>
       \A cb \in Range(canvasRenderer.resizeListeners) : lastCall.arg[2][cb] = 1

\* C30: after destroy() the renderer holds no resize callbacks and no window
\* 'resize' listener it attached remains: a later window resize event neither
\* reconfigures the canvas nor calls any callback.
C30_DestroyReleases ==
  canvasRenderer.destroyed =>
    /\ canvasRenderer.resizeListeners = <<>>
    /\ canvasRenderer.windowListeners = {}
    /\ lastCall.op = "windowResize" =>
         /\ lastCall.arg[1] = 0
         /\ \A cb \in CallbackIds : lastCall.arg[2][cb] = 0
         /\ canvasRenderer.configured # canvasRenderer.rect

====
